---- MODULE Spec2Model ----
(***************************************************************************)
(* Music Mood DJ API (server.js): the playlist generation handler, the     *)
(* top-tracks cache, track and playlist deletion and upload, modelled as   *)
(* request handlers that interleave at every await of a store call; and   *)
(* the React component App (unnamed/part_000): its player, its tabs and    *)
(* its generate form, modelled as events on the component's state.         *)
(*                                                                         *)
(* Weights are written in tenths (0.9 is 9, the fallback 0.5 is 5).        *)
(* Track and playlist identifiers are uuids: a track gets the next unused  *)
(* number, a playlist the number of the request that creates it.           *)
(***************************************************************************)
EXTENDS Integers, Sequences, FiniteSets, TLC

VARIABLES
    tracks,           \* table tracks: id -> selection_count of the rows that exist
    objects,          \* bucket music-files: ids whose storage object exists
    uuids,            \* number of track identifiers handed out so far
    playlists,        \* table playlists: id -> mood_prompt of the rows that exist
    playlist_tracks,  \* table playlist_tracks: set of rows
    cache,            \* redis key 'top-tracks'
    gen,              \* POST /api/playlists/generate requests
    top,              \* GET /api/stats/top-tracks requests
    del,              \* DELETE /api/tracks/:id requests
    up,               \* POST /api/tracks/upload requests
    response,         \* the answer sent last: res.status(..).json(..)
    client            \* the state of the React component App in the browser

vars == <<tracks, objects, uuids, playlists, playlist_tracks, cache, gen, top, del, up, response,
          client>>

----------------------------------------------------------------------------
(* Bounds of the model *)

MaxTracks == 2
MaxSel == 3
MaxFiles == 2

GenIds == {1, 2}
TopIds == {1, 2}
DelIds == {1}
UpIds == {1}

TrackIds == 1..MaxTracks
\* 0 is an identifier that never names a track (a hallucinated uuid)
AnyIds == 0..MaxTracks

----------------------------------------------------------------------------
(* Program constants *)

DefaultWeight == 5
CacheTTL == 300
DefaultLimit == 10
\* the fileSize limit of multer, in megabytes
FileSizeLimit == 50

----------------------------------------------------------------------------
(* Values *)

Range(s) == {s[i] : i \in 1..Len(s)}

SeqsUpTo(S, n) == UNION {[1..k -> S] : k \in 0..n}

Without(f, k) == [x \in DOMAIN f \ {k} |-> f[x]]

\* req.body.mood: absent, a string (a sequence of characters) or another JSON value
NoMood == [kind |-> "undefined", text |-> <<>>]
Str(s) == [kind |-> "string", text |-> s]

\* a weight of a selection record: a number, absent, or a non-numeric string
Num(v) == [kind |-> "number", v |-> v]
NoWeight == [kind |-> "undefined", v |-> 0]
StrWeight == [kind |-> "string", v |-> 0]

Rec(id, w) == [id |-> id, weight |-> w]

NoCache == [present |-> FALSE, snap |-> <<>>, ttl |-> 0]

\* String.prototype.trim: drops the whitespace at both ends
RECURSIVE TrimStart(_)
TrimStart(s) ==
    IF s # <<>> /\ Head(s) = " " THEN TrimStart(Tail(s)) ELSE s

RECURSIVE TrimEnd(_)
TrimEnd(s) ==
    IF s # <<>> /\ s[Len(s)] = " " THEN TrimEnd(SubSeq(s, 1, Len(s) - 1)) ELSE s

Trim(s) == TrimEnd(TrimStart(s))

\* the mood check without the trim
MoodRejectedUntrimmed(mood) ==
    \/ mood.kind = "undefined"
    \/ mood.kind = "string" /\ mood.text = <<>>

\* !mood || mood.trim() === ''
MoodRejected(mood) ==
    \/ mood.kind = "undefined"
    \/ mood.kind = "string" /\ mood.text = <<>>
    \/ mood.kind = "string" /\ Trim(mood.text) = <<>>

\* the catalog check that never fires
CatalogNeverEmpty(snapshot) == FALSE

\* tracks.length === 0
CatalogEmpty(snapshot) == DOMAIN snapshot = {}

\* a JavaScript value used as a condition
Truthy(w) ==
    \/ w.kind = "number" /\ w.v # 0
    \/ w.kind = "string"

\* selectedTrack.weight || 0.5
WeightOrDefault(w) == IF Truthy(w) THEN w ELSE Num(DefaultWeight)

\* tracks.find(t => t.id === selectedTrack.id) and the `continue` of the loop:
\* the first index from i on whose record names a track of the snapshot
RECURSIVE NextKnown(_, _, _)
NextKnown(resp, snapshot, i) ==
    IF i > Len(resp) THEN i
    ELSE IF resp[i].id \in DOMAIN snapshot THEN i
    ELSE NextKnown(resp, snapshot, i + 1)

----------------------------------------------------------------------------
(* The state after start-up: empty tables, empty bucket, no cache entry; the   *)
(* component App with its useState defaults                                    *)

\* values of currentPlaylist: null, a playlist with `tracks` tracks, or the body
\* of an error answer, which has no tracks
NoPlaylist == [kind |-> "null", tracks |-> 0]
Playlist(n) == [kind |-> "playlist", tracks |-> n]
ErrorBody == [kind |-> "error", tracks |-> 0]

\* values of notification
NoNotification == [message |-> "", type |-> ""]
Notification(message, type) == [message |-> message, type |-> type]

\* the 'nexttrack' action handler of navigator.mediaSession: none, or the
\* playNextTrack of the render in which the effect ran last
NoHandler == [set |-> FALSE, isLooping |-> FALSE, currentPlaylist |-> NoPlaylist,
              currentTrackIndex |-> 0]

InitClient ==
    [currentPlaylist   |-> NoPlaylist,
     currentTrackIndex |-> 0,
     isPlaying         |-> FALSE,
     isLooping         |-> FALSE,
     loading           |-> FALSE,
     notification      |-> NoNotification,
     activeTab         |-> "upload",
     nexttrack         |-> NoHandler,
     status            |-> 0,
     event             |-> "none"]

IdleGen == [pc |-> "idle", mood |-> NoMood, tracks |-> <<>>, geminiResponse |-> <<>>,
            i |-> 0, playlistTracks |-> <<>>]

IdleTop == [pc |-> "idle", limit |-> 0, topTracks |-> <<>>]

IdleDel == [pc |-> "idle", id |-> 0]

IdleUp == [pc |-> "idle", n |-> 0, k |-> 0, id |-> 0, uploadedTracks |-> <<>>]

\* an answer: the request it answers and that request's input, the HTTP status,
\* the error detail, the body
Answer(req, id, input, status, details, body) ==
    [req |-> req, id |-> id, input |-> input, status |-> status, details |-> details,
     body |-> body]

NoResponse == Answer("none", 0, [none |-> 0], 0, "none", <<>>)

Init ==
    /\ tracks = <<>>
    /\ objects = {}
    /\ uuids = 0
    /\ playlists = <<>>
    /\ playlist_tracks = {}
    /\ cache = NoCache
    /\ gen = [p \in GenIds |-> IdleGen]
    /\ top = [r \in TopIds |-> IdleTop]
    /\ del = [d \in DelIds |-> IdleDel]
    /\ up = [u \in UpIds |-> IdleUp]
    /\ response = NoResponse
    /\ client = InitClient

----------------------------------------------------------------------------
(* POST /api/playlists/generate *)

\* res.status(..).json(..): the request is answered and is over
GenReply(p, mood, status, details, body) ==
    /\ gen' = [gen EXCEPT ![p] = [IdleGen EXCEPT !.pc = "done"]]
    /\ response' = Answer("generate", p, mood, status, details, body)

\* the loop's next iteration that reaches the insert, or the end of the loop
GenAdvance(g, from) ==
    LET j == NextKnown(g.geminiResponse, g.tracks, from)
    IN  [g EXCEPT !.i = j, !.pc = IF j > Len(g.geminiResponse) THEN "invalidate" ELSE "entry"]

\* the request arrives; the mood check
GenStart(p, mood) ==
    /\ gen[p].pc = "idle"
    /\ IF MoodRejected(mood)
       THEN GenReply(p, mood, 400, "Mood prompt is required", <<>>)
       ELSE IF mood.kind # "string"
            THEN GenReply(p, mood, 500, "TypeError", <<>>)
            ELSE /\ gen' = [gen EXCEPT ![p].pc = "fetch", ![p].mood = mood]
                 /\ UNCHANGED response
    /\ UNCHANGED <<tracks, objects, uuids, playlists, playlist_tracks, cache, top, del, up>>

\* supabase.from('tracks').select('*'), then the empty-catalog check
GenFetch(p, ok) ==
    /\ gen[p].pc = "fetch"
    /\ IF ~ok
       THEN GenReply(p, gen[p].mood, 500, "tracksError", <<>>)
       ELSE IF CatalogEmpty(tracks)
            THEN GenReply(p, gen[p].mood, 400, "No tracks available", <<>>)
            ELSE /\ gen' = [gen EXCEPT ![p].pc = "call", ![p].tracks = tracks]
                 /\ UNCHANGED response
    /\ UNCHANGED <<tracks, objects, uuids, playlists, playlist_tracks, cache, top, del, up>>

\* the handler that inserts the playlist row before it calls the backend
GenCallAfterInsert(p, out) ==
    /\ gen[p].pc = "call"
    /\ playlists' = (p :> gen[p].mood) @@ playlists
    /\ CASE out.kind = "error"       -> GenReply(p, gen[p].mood, 500, "generateContent", <<>>)
         [] out.kind = "unparseable" -> GenReply(p, gen[p].mood, 500, "SyntaxError", <<>>)
         [] out.kind = "notracks"    -> GenReply(p, gen[p].mood, 500, "Invalid response format from Gemini", <<>>)
         [] OTHER -> /\ gen' = [gen EXCEPT ![p].pc = "insert", ![p].geminiResponse = out.tracks]
                     /\ UNCHANGED response
    /\ UNCHANGED <<tracks, objects, uuids, playlist_tracks, cache, top, del, up>>

\* model.generateContent(prompt), the clean-up of the text, JSON.parse and the
\* validation of the parsed value
GenCall(p, out) ==
    /\ gen[p].pc = "call"
    /\ CASE out.kind = "error"       -> GenReply(p, gen[p].mood, 500, "generateContent", <<>>)
         [] out.kind = "unparseable" -> GenReply(p, gen[p].mood, 500, "SyntaxError", <<>>)
         [] out.kind = "notracks"    -> GenReply(p, gen[p].mood, 500, "Invalid response format from Gemini", <<>>)
         [] OTHER -> /\ gen' = [gen EXCEPT ![p].pc = "insert", ![p].geminiResponse = out.tracks]
                     /\ UNCHANGED response
    /\ UNCHANGED <<tracks, objects, uuids, playlists, playlist_tracks, cache, top, del, up>>

\* supabase.from('playlists').insert({mood_prompt: mood}), then the loop starts
GenInsertPlaylist(p, ok) ==
    /\ gen[p].pc = "insert"
    /\ IF ok
       THEN /\ playlists' = (p :> gen[p].mood) @@ playlists
            /\ gen' = [gen EXCEPT ![p] = GenAdvance(@, 1)]
            /\ UNCHANGED response
       ELSE /\ GenReply(p, gen[p].mood, 500, "playlistError", <<>>)
            /\ UNCHANGED playlists
    /\ UNCHANGED <<tracks, objects, uuids, playlist_tracks, cache, top, del, up>>

\* the row filed under the playlist of the first request, whoever inserts it
EntryRowOfFirst(p, g) ==
    [playlist_id |-> 1,
     track_id    |-> g.geminiResponse[g.i].id,
     position    |-> g.i,
     weight      |-> WeightOrDefault(g.geminiResponse[g.i].weight).v]

\* the row with the position of the first record, whatever the index
EntryRowAtFirst(p, g) ==
    [playlist_id |-> p,
     track_id    |-> g.geminiResponse[g.i].id,
     position    |-> 1,
     weight      |-> WeightOrDefault(g.geminiResponse[g.i].weight).v]

\* the row the loop inserts for the record at index i
EntryRow(p, g) ==
    [playlist_id |-> p,
     track_id    |-> g.geminiResponse[g.i].id,
     position    |-> g.i,
     weight      |-> WeightOrDefault(g.geminiResponse[g.i].weight).v]

\* the store without the foreign key on track_id
EntryAcceptedAnyTrack(p, g) ==
    /\ p \in DOMAIN playlists
    /\ WeightOrDefault(g.geminiResponse[g.i].weight).kind = "number"

\* what the store accepts: both foreign keys name a row, the weight is a FLOAT
EntryAccepted(p, g) ==
    /\ p \in DOMAIN playlists
    /\ g.geminiResponse[g.i].id \in DOMAIN tracks
    /\ WeightOrDefault(g.geminiResponse[g.i].weight).kind = "number"

\* the loop that goes on to the counter without inserting the entry
GenCountWithoutEntry(p, ok) ==
    /\ gen[p].pc = "entry"
    /\ gen' = [gen EXCEPT ![p].pc = "count"]
    /\ UNCHANGED <<tracks, objects, uuids, playlists, playlist_tracks, cache, top, del, up,
                   response>>

\* supabase.from('playlist_tracks').insert(..); on ptError the loop continues
GenInsertEntry(p, ok) ==
    /\ gen[p].pc = "entry"
    /\ IF ok /\ EntryAccepted(p, gen[p])
       THEN /\ playlist_tracks' = playlist_tracks \cup {EntryRow(p, gen[p])}
            /\ gen' = [gen EXCEPT ![p].pc = "count"]
       ELSE /\ gen' = [gen EXCEPT ![p] = GenAdvance(@, @.i + 1)]
            /\ UNCHANGED playlist_tracks
    /\ UNCHANGED <<tracks, objects, uuids, playlists, cache, top, del, up, response>>

\* the value written to selection_count: the snapshot's count plus one
NewCount(g, id) == g.tracks[id] + 1

\* supabase.from('tracks').update({selection_count: ..}).eq('id', track.id), its
\* error ignored, then playlistTracks.push(..)
GenUpdateCount(p, ok) ==
    /\ gen[p].pc = "count"
    /\ LET g  == gen[p]
           id == g.geminiResponse[g.i].id
       IN  /\ tracks' = IF ok /\ id \in DOMAIN tracks
                        THEN [tracks EXCEPT ![id] = NewCount(g, id)]
                        ELSE tracks
           /\ gen' = [gen EXCEPT ![p] =
                        GenAdvance([@ EXCEPT !.playlistTracks =
                                       Append(@, [id |-> id,
                                                  weight |-> g.geminiResponse[g.i].weight,
                                                  position |-> g.i])],
                                   g.i + 1)]
    /\ UNCHANGED <<objects, uuids, playlists, playlist_tracks, cache, top, del, up, response>>

\* the generation that answers without clearing the cache entry
GenAnswersOnly(p, ok) ==
    /\ gen[p].pc = "invalidate"
    /\ IF ok
       THEN GenReply(p, gen[p].mood, 200, "none", gen[p].playlistTracks)
       ELSE GenReply(p, gen[p].mood, 500, "redis", <<>>)
    /\ UNCHANGED <<tracks, objects, uuids, playlists, playlist_tracks, cache, top, del, up>>

\* redis.del('top-tracks'), then res.json(..)
GenInvalidate(p, ok) ==
    /\ gen[p].pc = "invalidate"
    /\ IF ok
       THEN /\ cache' = NoCache
            /\ GenReply(p, gen[p].mood, 200, "none", gen[p].playlistTracks)
       ELSE /\ GenReply(p, gen[p].mood, 500, "redis", <<>>)
            /\ UNCHANGED cache
    /\ UNCHANGED <<tracks, objects, uuids, playlists, playlist_tracks, top, del, up>>

----------------------------------------------------------------------------
(* GET /api/stats/top-tracks *)

\* req.query.limit: absent or a number
NoLimit == [kind |-> "undefined", v |-> 0]

\* parseInt(req.query.limit) || 10
ParseLimit(q) == IF q.kind = "number" /\ q.v # 0 THEN q.v ELSE DefaultLimit

Min(a, b) == IF a < b THEN a ELSE b

\* .gt('selection_count', 0).order('selection_count', {ascending: false}).limit(limit):
\* every answer the store may give (rows with equal counts come in any order)
TopTracksResults(tr, limit) ==
    LET positive == {id \in DOMAIN tr : tr[id] > 0}
        n == Min(limit, Cardinality(positive))
    IN  { [i \in 1..n |-> [id |-> s[i], selection_count |-> tr[s[i]]]] :
            s \in { s \in [1..n -> positive] :
                      /\ \A i, j \in 1..n : i < j => s[i] # s[j] /\ tr[s[i]] >= tr[s[j]]
                      /\ \A x \in positive \ Range(s) : \A i \in 1..n : tr[x] <= tr[s[i]] } }

TopReply(r, limit, status, body) ==
    /\ top' = [top EXCEPT ![r] = IdleTop]
    /\ response' = Answer("top-tracks", r, [limit |-> limit], status, "none", body)

\* the request arrives; redis.get('top-tracks'); a hit is answered at once
TopGet(r, q, ok) ==
    /\ top[r].pc = "idle"
    /\ IF ~ok
       THEN TopReply(r, ParseLimit(q), 500, <<>>)
       ELSE IF cache.present
            THEN TopReply(r, ParseLimit(q), 200, cache.snap)
            ELSE /\ top' = [top EXCEPT ![r].pc = "query", ![r].limit = ParseLimit(q)]
                 /\ UNCHANGED response
    /\ UNCHANGED <<tracks, objects, uuids, playlists, playlist_tracks, cache, gen, del, up>>

\* the query of the tracks table
TopQuery(r, ok, rows) ==
    /\ top[r].pc = "query"
    /\ IF ok
       THEN /\ top' = [top EXCEPT ![r].pc = "setex", ![r].topTracks = rows]
            /\ UNCHANGED response
       ELSE TopReply(r, top[r].limit, 500, <<>>)
    /\ UNCHANGED <<tracks, objects, uuids, playlists, playlist_tracks, cache, gen, del, up>>

\* redis.setex('top-tracks', 300, ..), then res.json(topTracks)
TopSetex(r, ok) ==
    /\ top[r].pc = "setex"
    /\ IF ok
       THEN /\ cache' = [present |-> TRUE, snap |-> top[r].topTracks, ttl |-> CacheTTL]
            /\ TopReply(r, top[r].limit, 200, top[r].topTracks)
       ELSE /\ TopReply(r, top[r].limit, 500, <<>>)
            /\ UNCHANGED cache
    /\ UNCHANGED <<tracks, objects, uuids, playlists, playlist_tracks, gen, del, up>>

\* time passes and the key stays, whatever its time to live
TickKeeping(seconds) ==
    /\ cache.present
    /\ cache.ttl > 0
    /\ cache' = [cache EXCEPT !.ttl = IF @ > seconds THEN @ - seconds ELSE 0]
    /\ UNCHANGED <<tracks, objects, uuids, playlists, playlist_tracks, gen, top, del, up, response,
                   client>>

\* time passes: the key expires when its time to live is used up
Tick(seconds) ==
    /\ cache.present
    /\ cache' = IF cache.ttl > seconds THEN [cache EXCEPT !.ttl = @ - seconds] ELSE NoCache
    /\ UNCHANGED <<tracks, objects, uuids, playlists, playlist_tracks, gen, top, del, up, response,
                   client>>

----------------------------------------------------------------------------
(* DELETE /api/tracks/:id *)

\* ON DELETE CASCADE of playlist_tracks.track_id
CascadeTrack(rows, id) == {e \in rows : e.track_id # id}

\* the foreign key on playlist_id without its cascade
KeepEntries(rows, id) == rows

\* ON DELETE CASCADE of playlist_tracks.playlist_id
CascadePlaylist(rows, id) == {e \in rows : e.playlist_id # id}

DelReply(d, id, status) ==
    /\ del' = [del EXCEPT ![d] = IdleDel]
    /\ response' = Answer("delete-track", d, [id |-> id], status, "none", <<>>)

\* the request arrives; the row's storage_path is read; 404 without a row
DelFetch(d, id, ok) ==
    /\ del[d].pc = "idle"
    /\ IF ok /\ id \in DOMAIN tracks
       THEN /\ del' = [del EXCEPT ![d] = [pc |-> "remove", id |-> id]]
            /\ UNCHANGED response
       ELSE DelReply(d, id, 404)
    /\ UNCHANGED <<tracks, objects, uuids, playlists, playlist_tracks, cache, gen, top, up>>

\* the deletion that gives up when the storage object cannot be removed
DelRemoveOrFail(d, ok) ==
    /\ del[d].pc = "remove"
    /\ IF ok
       THEN /\ objects' = objects \ {del[d].id}
            /\ del' = [del EXCEPT ![d].pc = "dbdel"]
            /\ UNCHANGED response
       ELSE /\ DelReply(d, del[d].id, 500)
            /\ UNCHANGED objects
    /\ UNCHANGED <<tracks, uuids, playlists, playlist_tracks, cache, gen, top, up>>

\* supabase.storage.from('music-files').remove([..]); an error is only logged
DelRemove(d, ok) ==
    /\ del[d].pc = "remove"
    /\ objects' = IF ok THEN objects \ {del[d].id} ELSE objects
    /\ del' = [del EXCEPT ![d].pc = "dbdel"]
    /\ UNCHANGED <<tracks, uuids, playlists, playlist_tracks, cache, gen, top, up, response>>

\* supabase.from('tracks').delete().eq('id', id)
DelRow(d, ok) ==
    /\ del[d].pc = "dbdel"
    /\ IF ok
       THEN /\ tracks' = Without(tracks, del[d].id)
            /\ playlist_tracks' = CascadeTrack(playlist_tracks, del[d].id)
            /\ del' = [del EXCEPT ![d].pc = "invalidate"]
            /\ UNCHANGED response
       ELSE /\ DelReply(d, del[d].id, 500)
            /\ UNCHANGED <<tracks, playlist_tracks>>
    /\ UNCHANGED <<objects, uuids, playlists, cache, gen, top, up>>

\* the deletion that answers without clearing the cache entry
DelAnswersOnly(d, ok) ==
    /\ del[d].pc = "invalidate"
    /\ IF ok THEN DelReply(d, del[d].id, 200) ELSE DelReply(d, del[d].id, 500)
    /\ UNCHANGED <<tracks, objects, uuids, playlists, playlist_tracks, cache, gen, top, up>>

\* redis.del('top-tracks'), then res.status(200)
DelInvalidate(d, ok) ==
    /\ del[d].pc = "invalidate"
    /\ IF ok
       THEN /\ cache' = NoCache
            /\ DelReply(d, del[d].id, 200)
       ELSE /\ DelReply(d, del[d].id, 500)
            /\ UNCHANGED cache
    /\ UNCHANGED <<tracks, objects, uuids, playlists, playlist_tracks, gen, top, up>>

----------------------------------------------------------------------------
(* DELETE /api/playlists/:id *)

\* the deletion that takes the playlist's selections back from the counters
DeletePlaylistDecrementing(id, ok) ==
    /\ IF ok
       THEN /\ playlists' = Without(playlists, id)
            /\ playlist_tracks' = CascadePlaylist(playlist_tracks, id)
            /\ tracks' = [t \in DOMAIN tracks |->
                             IF \E e \in playlist_tracks : e.playlist_id = id /\ e.track_id = t
                             THEN tracks[t] - 1 ELSE tracks[t]]
            /\ response' = Answer("delete-playlist", 0, [id |-> id], 200, "none", <<>>)
       ELSE /\ response' = Answer("delete-playlist", 0, [id |-> id], 500, "none", <<>>)
            /\ UNCHANGED <<tracks, playlists, playlist_tracks>>
    /\ UNCHANGED <<objects, uuids, cache, gen, top, del, up, client>>

DeletePlaylist(id, ok) ==
    /\ IF ok
       THEN /\ playlists' = Without(playlists, id)
            /\ playlist_tracks' = CascadePlaylist(playlist_tracks, id)
            /\ response' = Answer("delete-playlist", 0, [id |-> id], 200, "none", <<>>)
       ELSE /\ response' = Answer("delete-playlist", 0, [id |-> id], 500, "none", <<>>)
            /\ UNCHANGED <<playlists, playlist_tracks>>
    /\ UNCHANGED <<tracks, objects, uuids, cache, gen, top, del, up, client>>

----------------------------------------------------------------------------
(* GET /api/playlists, GET /api/playlists/:id, GET /api/tracks/stream/:id *)

\* select('*, playlist_tracks (*, tracks (*))'): the entries of playlist id, each
\* with the tracks row that it references (null when there is none)
Embedded(rows, tr, id) ==
    { [position |-> e.position, weight |-> e.weight, track_id |-> e.track_id,
       tracks |-> IF e.track_id \in DOMAIN tr
                  THEN [null |-> FALSE, selection_count |-> tr[e.track_id]]
                  ELSE [null |-> TRUE, selection_count |-> 0]] :
        e \in {x \in rows : x.playlist_id = id} }

\* the listing that resets the counters it reads
GetTracksResetting(ok) ==
    /\ response' = IF ok
                   THEN Answer("get-tracks", 0, [none |-> 0], 200, "none", tracks)
                   ELSE Answer("get-tracks", 0, [none |-> 0], 500, "none", <<>>)
    /\ tracks' = [t \in DOMAIN tracks |-> 0]
    /\ UNCHANGED <<objects, uuids, playlists, playlist_tracks, cache, gen, top, del, up>>

\* GET /api/tracks: the rows of the tracks table (the order by upload_date is
\* left out)
GetTracks(ok) ==
    /\ response' = IF ok
                   THEN Answer("get-tracks", 0, [none |-> 0], 200, "none", tracks)
                   ELSE Answer("get-tracks", 0, [none |-> 0], 500, "none", <<>>)
    /\ UNCHANGED <<tracks, objects, uuids, playlists, playlist_tracks, cache, gen, top, del, up>>

\* the playlists with their entries (the order by created_at is left out)
GetPlaylists(ok) ==
    /\ response' = IF ok
                   THEN Answer("get-playlists", 0, [none |-> 0], 200, "none",
                               [id \in DOMAIN playlists |->
                                   [mood_prompt |-> playlists[id],
                                    playlist_tracks |-> Embedded(playlist_tracks, tracks, id)]])
                   ELSE Answer("get-playlists", 0, [none |-> 0], 500, "none", <<>>)
    /\ UNCHANGED <<tracks, objects, uuids, playlists, playlist_tracks, cache, gen, top, del, up>>

\* .eq('id', id).single() gives an error when no row matches; every error is thrown
GetPlaylist(id, ok) ==
    /\ response' = IF ok /\ id \in DOMAIN playlists
                   THEN Answer("get-playlist", 0, [id |-> id], 200, "none",
                               [mood_prompt |-> playlists[id],
                                playlist_tracks |-> Embedded(playlist_tracks, tracks, id)])
                   ELSE Answer("get-playlist", 0, [id |-> id], 500, "none", <<>>)
    /\ UNCHANGED <<tracks, objects, uuids, playlists, playlist_tracks, cache, gen, top, del, up,
                   client>>

\* the row is read (404 without one), then the object is downloaded (500 when
\* that fails); the handler writes nothing, its two reads are taken as one step
StreamTrack(id, fetched, downloaded) ==
    /\ response' = IF ~fetched \/ id \notin DOMAIN tracks
                   THEN Answer("stream", 0, [id |-> id], 404, "none", <<>>)
                   ELSE IF ~downloaded \/ id \notin objects
                        THEN Answer("stream", 0, [id |-> id], 500, "none", <<>>)
                        ELSE Answer("stream", 0, [id |-> id], 200, "none", <<id>>)
    /\ UNCHANGED <<tracks, objects, uuids, playlists, playlist_tracks, cache, gen, top, del, up>>

----------------------------------------------------------------------------
(* POST /api/tracks/upload *)

UpReply(u, n, status, body) ==
    /\ up' = [up EXCEPT ![u] = IdleUp]
    /\ response' = Answer("upload", u, [files |-> n], status, "none", body)

\* the loop goes on with the next file, or the request is answered after the last
UpAdvance(u, uploaded) ==
    IF up[u].k < up[u].n
    THEN /\ up' = [up EXCEPT ![u].pc = "store", ![u].k = @ + 1, ![u].uploadedTracks = uploaded]
         /\ UNCHANGED response
    ELSE UpReply(u, up[u].n, 200, uploaded)

\* the content types that the fileFilter of multer lets pass
AllowedTypes == {"audio/mpeg", "audio/wav", "audio/x-wav"}

FileFilter(file) == file.mimetype \in AllowedTypes

\* limits: {fileSize: 50 * 1024 * 1024}
WithinLimits(file) == file.size <= FileSizeLimit

\* multer hands its error to next(): the handler does not run and the error
\* handling middleware answers 500
UpRefused(u, files) ==
    /\ up[u].pc = "idle"
    /\ \E i \in 1..Len(files) : ~FileFilter(files[i]) \/ ~WithinLimits(files[i])
    /\ UpReply(u, Len(files), 500, <<>>)
    /\ UNCHANGED <<tracks, objects, uuids, playlists, playlist_tracks, cache, gen, top, del>>

\* the request arrives with n files that multer accepted
UpStart(u, n) ==
    /\ up[u].pc = "idle"
    /\ uuids + n <= MaxTracks
    /\ IF n = 0
       THEN UpReply(u, n, 400, <<>>)
       ELSE /\ up' = [up EXCEPT ![u] = [IdleUp EXCEPT !.pc = "store", !.n = n, !.k = 1]]
            /\ UNCHANGED response
    /\ UNCHANGED <<tracks, objects, uuids, playlists, playlist_tracks, cache, gen, top, del>>

\* the upload that gives up at the first file the storage refuses
UpStoreOrFail(u, ok) ==
    /\ up[u].pc = "store"
    /\ IF ok
       THEN /\ uuids' = uuids + 1
            /\ objects' = objects \cup {uuids + 1}
            /\ up' = [up EXCEPT ![u].pc = "insert", ![u].id = uuids + 1]
            /\ UNCHANGED response
       ELSE /\ UpReply(u, up[u].n, 500, <<>>)
            /\ UNCHANGED <<uuids, objects>>
    /\ UNCHANGED <<tracks, playlists, playlist_tracks, cache, gen, top, del>>

\* supabase.storage.from('music-files').upload(..); on storageError the next file
UpStore(u, ok) ==
    /\ up[u].pc = "store"
    /\ IF ok
       THEN /\ uuids' = uuids + 1
            /\ objects' = objects \cup {uuids + 1}
            /\ up' = [up EXCEPT ![u].pc = "insert", ![u].id = uuids + 1]
            /\ UNCHANGED response
       ELSE /\ UpAdvance(u, up[u].uploadedTracks)
            /\ UNCHANGED <<uuids, objects>>
    /\ UNCHANGED <<tracks, playlists, playlist_tracks, cache, gen, top, del>>

\* the row that insert(..).select().single() gives back for the file at index k
UploadedRow(u) == [id |-> up[u].id, original_name |-> up[u].k, selection_count |-> 0]

\* supabase.from('tracks').insert({.., selection_count: 0}); on dbError the next file
UpInsert(u, ok) ==
    /\ up[u].pc = "insert"
    /\ IF ok
       THEN /\ tracks' = (up[u].id :> 0) @@ tracks
            /\ UpAdvance(u, Append(up[u].uploadedTracks, UploadedRow(u)))
       ELSE /\ UpAdvance(u, up[u].uploadedTracks)
            /\ UNCHANGED tracks
    /\ UNCHANGED <<objects, uuids, playlists, playlist_tracks, cache, gen, top, del>>

----------------------------------------------------------------------------
(* The component App (src/unnamed/part_000): player, tabs, generate form *)

\* the variables of the server, which no event of the component touches: its
\* requests are taken by the answers they get
server == <<tracks, objects, uuids, playlists, playlist_tracks, cache, gen, top, del, up, response>>

\* the tabs of the navigation
Tabs == {"upload", "generate", "player", "playlists", "stats"}

\* currentPlaylist?.tracks[currentTrackIndex] is a track
TrackExists(c) ==
    /\ c.currentPlaylist.kind = "playlist"
    /\ c.currentTrackIndex \in 0..(c.currentPlaylist.tracks - 1)

\* the values that the playNextTrack of a render closes over
Closure(c) ==
    [set |-> TRUE, isLooping |-> c.isLooping, currentPlaylist |-> c.currentPlaylist,
     currentTrackIndex |-> c.currentTrackIndex]

\* playNextTrack: the index it sets, from the values h of its render and the
\* index prevIndex that the state holds (an error body has no tracks: the read
\* of tracks.length throws and nothing is set)
NextIndex(prevIndex, h) ==
    IF h.currentPlaylist.kind # "playlist" THEN prevIndex
    ELSE IF h.isLooping /\ h.currentTrackIndex = h.currentPlaylist.tracks - 1 THEN 0
    ELSE IF h.currentTrackIndex < h.currentPlaylist.tracks - 1 THEN prevIndex + 1
    ELSE prevIndex

\* the render after an event and its media session effect, which runs when
\* currentPlaylist (a new object: fresh), currentTrackIndex or isPlaying has
\* changed, and sets the 'nexttrack' handler when there is a current track
Render(old, new, fresh) ==
    IF /\ \/ fresh
          \/ new.currentTrackIndex # old.currentTrackIndex
          \/ new.isPlaying # old.isPlaying
       /\ TrackExists(new)
    THEN [new EXCEPT !.nexttrack = Closure(new)]
    ELSE new

\* the event changes the component's state to new; the component renders
Event(name, new, fresh) ==
    /\ client' = Render(client, [new EXCEPT !.event = name], fresh)
    /\ UNCHANGED server

\* the skip button: onClick={playNextTrack}, disabled at the last track when
\* looping is off
NextClick ==
    /\ client.activeTab = "player"
    /\ client.currentPlaylist.kind = "playlist"
    /\ ~(~client.isLooping /\ client.currentTrackIndex >= client.currentPlaylist.tracks - 1)
    /\ Event("next",
             [client EXCEPT !.currentTrackIndex = NextIndex(@, Closure(client))], FALSE)

\* <audio onEnded={handleTrackEnded}>
HandleTrackEnded ==
    /\ TrackExists(client)
    /\ Event("ended",
             [client EXCEPT !.currentTrackIndex = NextIndex(@, Closure(client))], FALSE)

\* the 'nexttrack' action of the media session (a media key): the handler that
\* the effect set last. With no current track the effect leaves the handler of
\* an earlier playlist in place, and the index it raises is capped here
MediaNextTrack ==
    /\ client.nexttrack.set
    /\ client.currentTrackIndex < MaxSel
    /\ Event("nexttrack",
             [client EXCEPT !.currentTrackIndex = NextIndex(@, client.nexttrack)], FALSE)

\* the loop button: setIsLooping(!isLooping)
ToggleLoop ==
    /\ client.activeTab = "player"
    /\ client.currentPlaylist.kind = "playlist"
    /\ Event("loop", [client EXCEPT !.isLooping = ~@], FALSE)

\* a row of the queue: setCurrentTrackIndex(index)
QueueClick(index) ==
    /\ client.activeTab = "player"
    /\ client.currentPlaylist.kind = "playlist"
    /\ index \in 0..(client.currentPlaylist.tracks - 1)
    /\ Event("queue", [client EXCEPT !.currentTrackIndex = index], FALSE)

\* handlePlayPlaylist of a listed playlist with n entries
HandlePlayPlaylist(n) ==
    /\ client.activeTab = "playlists"
    /\ Event("playPlaylist",
             [client EXCEPT !.currentPlaylist = Playlist(n),
                            !.currentTrackIndex = 0,
                            !.activeTab = "player"], TRUE)

\* <audio onPlay={() => setIsPlaying(true)} onPause={() => setIsPlaying(false)}>
PlayPause ==
    /\ TrackExists(client)
    /\ Event("playPause", [client EXCEPT !.isPlaying = ~@], FALSE)

\* a tab of the navigation: setActiveTab(tab)
TabClick(tab) ==
    /\ tab # client.activeTab
    /\ Event("tab", [client EXCEPT !.activeTab = tab], FALSE)

\* the notification is dismissed, by its button or after 4 seconds
DismissNotification ==
    /\ client.notification # NoNotification
    /\ Event("dismiss", [client EXCEPT !.notification = NoNotification], FALSE)

\* generatePlaylist up to its fetch: a blank mood prompt is refused with a
\* notification (blank is TRUE), otherwise the request is sent
GenerateClick(blank) ==
    /\ client.activeTab = "generate"
    /\ ~client.loading
    /\ IF blank
       THEN Event("generate",
                  [client EXCEPT !.notification =
                      Notification("Please enter a mood prompt.", "error")], FALSE)
       ELSE Event("generate", [client EXCEPT !.loading = TRUE], FALSE)

\* what the fetch of generatePlaylist may come to: an answer with its status
\* and its JSON body (server.js:264-276, 157-193), or no answer (status 0)
GenerateAnswers ==
    {[status |-> 200, body |-> Playlist(n)] : n \in 0..MaxSel}
      \cup {[status |-> 400, body |-> ErrorBody], [status |-> 500, body |-> ErrorBody],
            [status |-> 0, body |-> NoPlaylist]}

\* generatePlaylist from the end of its fetch: without an answer the catch shows
\* a notification; any answer's body becomes the current playlist (the two
\* refreshes that follow set lists that are not modelled and catch their errors)
GenerateAnswered(answer) ==
    /\ client.loading
    /\ IF answer.status = 0
       THEN Event("answered",
                  [client EXCEPT !.status = answer.status,
                                 !.loading = FALSE,
                                 !.notification =
                                     Notification("Error generating playlist.", "error")],
                  FALSE)
       ELSE Event("answered",
                  [client EXCEPT !.status = answer.status,
                                 !.loading = FALSE,
                                 !.currentPlaylist = answer.body,
                                 !.currentTrackIndex = 0,
                                 !.activeTab = "player"], TRUE)

----------------------------------------------------------------------------
(* The requests and the answers of the collaborators that a run draws from *)

Ok == {TRUE}
OkOrError == {TRUE, FALSE}

Moods == {NoMood, Str(<<>>), Str(<<" ">>), Str(<<" ", " ">>), Str(<<"c">>),
          [kind |-> "number", text |-> <<>>]}

Weights == {Num(0), Num(9), NoWeight}

Failed(kind) == [kind |-> kind, tracks |-> <<>>]
Selected(recs) == [kind |-> "tracks", tracks |-> recs]

\* the backend's answers: a failure, text that is no JSON, JSON without a tracks
\* array, or up to n selection records over the ids and the weights ws
Outcomes(ids, ws, n) ==
    {Failed("error"), Failed("unparseable"), Failed("notracks")}
      \cup {Selected(recs) : recs \in SeqsUpTo({Rec(id, w) : id \in ids, w \in ws}, n)}

\* the backend selects at most one track, any identifier, weight 0.9
OneSelection == Outcomes(AnyIds, {Num(9)}, 1)

\* the backend selects up to MaxSel records naming track 1 or an unknown identifier
AnySelection == Outcomes({0, 1}, Weights, MaxSel)

\* the weights a selection record may carry: 0, 0.9, none, a non-numeric string,
\* a number below 0, a number above 1
AllWeights == {Num(0), Num(9), NoWeight, StrWeight, Num(-1), Num(12)}

\* the backend selects track 1 up to MaxSel - 1 times, with any weight
WeightSelection == Outcomes({1}, AllWeights, MaxSel - 1)

\* the backend selects track 1 up to MaxSel - 1 times, with weight 0.9
RepeatedSelection == Outcomes({1}, {Num(9)}, MaxSel - 1)

Calm == {Str(<<"c">>)}

Limits == {NoLimit, Num(1)}

TickSeconds == {150}

\* no request is between its arrival and its answer
Quiet ==
    /\ \A p \in GenIds : gen[p].pc \in {"idle", "done"}
    /\ \A r \in TopIds : top[r].pc = "idle"
    /\ \A d \in DelIds : del[d].pc = "idle"
    /\ \A u \in UpIds : up[u].pc = "idle"

\* no upload is in progress
Uploaded == \A u \in UpIds : up[u].pc = "idle"

\* POST /api/playlists/generate: requests P arrive when `gate` holds, with a mood of
\* moods; the backend answers with one of outs, a store call with one of oks
Generate(P, gate, moods, outs, oks) ==
    /\ UNCHANGED client
    /\ \/ gate /\ \E p \in P, mood \in moods : GenStart(p, mood)
       \/ \E p \in P, ok \in oks : GenFetch(p, ok)
       \/ \E p \in P : gen[p].pc = "call" /\ \E out \in outs : GenCall(p, out)
       \/ \E p \in P, ok \in oks : GenInsertPlaylist(p, ok)
       \/ \E p \in P, ok \in oks : GenInsertEntry(p, ok)
       \/ \E p \in P, ok \in oks : GenUpdateCount(p, ok)
       \/ \E p \in P, ok \in oks : GenInvalidate(p, ok)

\* GET /api/stats/top-tracks
TopTracks(R, gate, limits, oks) ==
    /\ UNCHANGED client
    /\ \/ gate /\ \E r \in R, q \in limits, ok \in oks : TopGet(r, q, ok)
       \/ \E r \in R, ok \in oks :
             /\ top[r].pc = "query"
             /\ \E rows \in TopTracksResults(tracks, top[r].limit) : TopQuery(r, ok, rows)
       \/ \E r \in R, ok \in oks : TopSetex(r, ok)

\* DELETE /api/tracks/:id
DeleteTrack(D, gate, oks) ==
    /\ UNCHANGED client
    /\ \/ gate /\ \E d \in D, id \in TrackIds, ok \in oks : DelFetch(d, id, ok)
       \/ \E d \in D, ok \in oks : DelRemove(d, ok)
       \/ \E d \in D, ok \in oks : DelRow(d, ok)
       \/ \E d \in D, ok \in oks : DelInvalidate(d, ok)

\* POST /api/tracks/upload
Upload(U, gate, oks) ==
    /\ UNCHANGED client
    /\ \/ gate /\ \E u \in U, n \in 0..MaxFiles : UpStart(u, n)
       \/ \E u \in U, ok \in oks : UpStore(u, ok)
       \/ \E u \in U, ok \in oks : UpInsert(u, ok)

\* the files of an upload: an MP3 of 1 MB, a text file of 1 MB, an MP3 of 51 MB
Files == {[mimetype |-> "audio/mpeg", size |-> 1],
          [mimetype |-> "text/plain", size |-> 1],
          [mimetype |-> "audio/mpeg", size |-> FileSizeLimit + 1]}

\* POST /api/tracks/upload with a file that multer refuses
UploadRefused(U, gate) ==
    /\ UNCHANGED client
    /\ gate /\ \E u \in U, files \in SeqsUpTo(Files, MaxFiles) : UpRefused(u, files)

\* GET /api/tracks, GET /api/playlists, GET /api/playlists/:id,
\* GET /api/tracks/stream/:id
Reads(gate, oks) ==
    /\ UNCHANGED client
    /\ \/ gate /\ \E ok \in oks : GetTracks(ok)
       \/ gate /\ \E ok \in oks : GetPlaylists(ok)
       \/ gate /\ \E id \in GenIds, ok \in oks : GetPlaylist(id, ok)
       \/ gate /\ \E id \in TrackIds, fetched \in oks, downloaded \in oks :
                     StreamTrack(id, fetched, downloaded)

----------------------------------------------------------------------------
(* Concurrent generations: two generations and a top-tracks read interleave at *)
(* every await; the library is uploaded while no other request is in progress; *)
(* every store call succeeds; the backend selects at most one track            *)

Next ==
    \/ Generate(GenIds, Uploaded, Calm, OneSelection, Ok)
    \/ TopTracks({1}, Uploaded, {NoLimit}, Ok)
    \/ Upload(UpIds, Quiet, Ok)

Spec == Init /\ [][Next]_vars

----------------------------------------------------------------------------
(* The cache under concurrency: a generation, a track deletion and a top-tracks *)
(* read interleave at every await; their store calls may fail; the entry expires *)

NextCache ==
    \/ Generate({1}, Uploaded, Calm, OneSelection, OkOrError)
    \/ TopTracks({1}, Uploaded, {NoLimit}, OkOrError)
    \/ DeleteTrack(DelIds, Uploaded, OkOrError)
    \/ Upload(UpIds, Quiet, Ok)
    \/ \E s \in TickSeconds : Tick(s)

SpecCache == Init /\ [][NextCache]_vars

----------------------------------------------------------------------------
(* One generation against an uploaded library: any mood, any answer of the     *)
(* backend over an unknown identifier and track 1, any store call may fail;    *)
(* playlists are deleted while no other request is in progress                 *)

NextGen ==
    \/ Generate({1}, Uploaded, Moods, AnySelection, OkOrError)
    \/ Upload(UpIds, Quiet, OkOrError)
    \/ Quiet /\ \E id \in GenIds, ok \in OkOrError : DeletePlaylist(id, ok)

SpecGen == Init /\ [][NextGen]_vars

----------------------------------------------------------------------------
(* One request at a time: generations, top-tracks reads, track deletions and   *)
(* uploads, each arriving after the previous one was answered; any store call  *)
(* may fail; the cache entry expires                                           *)

NextSeq ==
    \/ Generate(GenIds, Quiet, Calm, OneSelection, OkOrError)
    \/ TopTracks({1}, Quiet, Limits, OkOrError)
    \/ DeleteTrack(DelIds, Quiet, OkOrError)
    \/ Upload(UpIds, Quiet, OkOrError)
    \/ \E s \in TickSeconds : Tick(s)

SpecSeq == Init /\ [][NextSeq]_vars

----------------------------------------------------------------------------
(* The weights of the entries: one generation against an uploaded library, the *)
(* backend selects track 1 with any weight, every store call succeeds          *)

NextWeight ==
    \/ Generate({1}, Uploaded, Calm, WeightSelection, Ok)
    \/ Upload(UpIds, Quiet, Ok)
    \/ Quiet /\ \E ok \in Ok : GetPlaylist(1, ok)

SpecWeight == Init /\ [][NextWeight]_vars

----------------------------------------------------------------------------
(* Repeated selections: two generations interleave at every await, the backend *)
(* names track 1 more than once, every store call succeeds                     *)

NextRepeat ==
    \/ Generate(GenIds, Uploaded, Calm, RepeatedSelection, Ok)
    \/ Upload(UpIds, Quiet, Ok)

SpecRepeat == Init /\ [][NextRepeat]_vars

----------------------------------------------------------------------------
(* Reads and deletions, one request at a time: a generation, track and         *)
(* playlist deletions, uploads (also of files that multer refuses) and the     *)
(* reads of tracks, of playlists, of track files and of the top tracks; any    *)
(* store call of the other requests may fail                                   *)

NextRead ==
    \/ Generate({1}, Quiet, Calm, OneSelection, OkOrError)
    \/ DeleteTrack(DelIds, Quiet, OkOrError)
    \/ Upload(UpIds, Quiet, OkOrError)
    \/ Quiet /\ \E id \in GenIds, ok \in OkOrError : DeletePlaylist(id, ok)
    \/ Reads(Quiet, OkOrError)
    \/ UploadRefused(UpIds, Quiet)
    \/ TopTracks({1}, Quiet, {NoLimit}, Ok)

SpecRead == Init /\ [][NextRead]_vars

----------------------------------------------------------------------------
(* Deletions during a generation: a generation whose backend names track 1 up *)
(* to MaxSel - 1 times interleaves at every await with track deletions,       *)
(* playlist deletions and reads of a playlist; the calls of the generation    *)
(* succeed                                                                    *)

NextDrop ==
    \/ Generate({1}, Uploaded, Calm, RepeatedSelection, Ok)
    \/ DeleteTrack(DelIds, Uploaded, OkOrError)
    \/ Uploaded /\ \E id \in GenIds, ok \in OkOrError : DeletePlaylist(id, ok)
    \/ Uploaded /\ \E id \in GenIds, ok \in Ok : GetPlaylist(id, ok)
    \/ Upload(UpIds, Quiet, Ok)

SpecDrop == Init /\ [][NextDrop]_vars

----------------------------------------------------------------------------
(* The component alone: the events of the player, of the tabs and of the     *)
(* generate form in any order, the generate request answered in any way      *)

NextClient ==
    \/ NextClick
    \/ HandleTrackEnded
    \/ MediaNextTrack
    \/ ToggleLoop
    \/ \E index \in 0..(MaxSel - 1) : QueueClick(index)
    \/ \E n \in 0..MaxSel : HandlePlayPlaylist(n)
    \/ PlayPause
    \/ \E tab \in Tabs : TabClick(tab)
    \/ DismissNotification
    \/ \E blank \in BOOLEAN : GenerateClick(blank)
    \/ \E answer \in GenerateAnswers : GenerateAnswered(answer)

SpecClient == Init /\ [][NextClient]_vars

----------------------------------------------------------------------------
(* What the claims speak of *)

\* the entries of playlist p
Rows(p) == {e \in playlist_tracks : e.playlist_id = p}

\* the indices of the selection records of g that name a track of its snapshot
Known(g) == {i \in 1..Len(g.geminiResponse) : g.geminiResponse[i].id \in DOMAIN g.tracks}

\* no generation is between its arrival and its answer
GenerationsOver == \A p \in GenIds : gen[p].pc \in {"idle", "done"}

\* request p is answered in this step, after its loop
AnsweredAfterLoop(p) == gen[p].pc = "invalidate" /\ gen'[p].pc = "done"

\* a mood that is missing, empty or only whitespace
IsBlank(mood) ==
    \/ mood.kind = "undefined"
    \/ mood.kind = "string" /\ \A i \in 1..Len(mood.text) : mood.text[i] = " "

\* the mood of the request p that arrives in this step
ArrivedMood(p) == IF gen'[p].pc = "done" THEN response'.input ELSE gen'[p].mood

\* a snapshot that the catalog query could return now, for some limit of a request
Fresh(snap) == \E q \in Limits : snap \in TopTracksResults(tracks, ParseLimit(q))

\* a mutation has written the catalog and has not yet come to its invalidation
MutationPending ==
    \/ \E p \in GenIds : gen[p].pc \in {"entry", "count", "invalidate"}
    \/ \E d \in DelIds : del[d].pc = "invalidate"

\* with no mutation pending the cache holds a snapshot that the catalog no longer
\* gives: a read arriving now is answered with it (TopGet)
ServesStale == ~MutationPending /\ cache.present /\ ~Fresh(cache.snap)

\* the invalidation of a mutation fails in this step: the cache store is down
InvalidationFails ==
    \/ \E p \in GenIds : AnsweredAfterLoop(p) /\ response'.status = 500
    \/ \E d \in DelIds : del[d].pc = "invalidate" /\ del'[d].pc = "idle" /\ response'.status = 500

\* a read that queried the catalog before a mutation writes the cache in this step
StaleReadStores ==
    \E r \in TopIds : /\ top[r].pc = "setex"
                      /\ top'[r].pc = "idle"
                      /\ top[r].topTracks \notin TopTracksResults(tracks, top[r].limit)

----------------------------------------------------------------------------
(* C1: when all generations are over, a track that was never deleted and has *)
(* at most one entry in each playlist has a selection_count equal to the     *)
(* number of playlists that hold an entry of it.                             *)
CEX_C1 ==
    GenerationsOver =>
        \A t \in DOMAIN tracks :
            (\A p \in DOMAIN playlists : Cardinality({e \in Rows(p) : e.track_id = t}) <= 1)
            => tracks[t] = Cardinality({p \in DOMAIN playlists : \E e \in Rows(p) : e.track_id = t})

(* C2: a generation whose selection records all name identifiers outside the *)
(* catalog answers with an error and leaves no playlist row and no entry.    *)
CEX_C2 ==
    [][\A p \in GenIds :
          (AnsweredAfterLoop(p) /\ gen[p].geminiResponse # <<>> /\ Known(gen[p]) = {})
          => /\ response'.status = 500
             /\ p \notin DOMAIN playlists'
             /\ Rows(p)' = {}]_vars

(* C3: when a generation is answered, either its playlist is stored with an  *)
(* entry for every surviving record and every referenced track's counter     *)
(* raised, or nothing of the playlist is stored.                             *)
CEX_C3 ==
    [][\A p \in GenIds :
          AnsweredAfterLoop(p)
          => \/ p \notin DOMAIN playlists' /\ Rows(p)' = {}
             \/ /\ p \in DOMAIN playlists'
                /\ Cardinality(Rows(p)') = Cardinality(Known(gen[p]))
                /\ \A e \in Rows(p)' : tracks'[e.track_id] > gen[p].tracks[e.track_id]]_vars

(* C4: when the loop of a generation is over and every surviving record got  *)
(* its entry, the positions of the playlist's K entries are exactly 1..K.    *)
CEX_C4 ==
    \A p \in GenIds :
        (gen[p].pc = "invalidate" /\ Cardinality(Rows(p)) = Cardinality(Known(gen[p])))
        => {e.position : e \in Rows(p)} = 1..Cardinality(Rows(p))

(* C5: for a response of N records (3 <= N <= 6) that all name catalog       *)
(* tracks and whose N entries were all stored, the i-th record is stored at  *)
(* position i, and with its own weight when that is a number in [0, 1].      *)
CEX_C5 ==
    \A p \in GenIds :
        LET g == gen[p]
            N == Len(g.geminiResponse)
        IN  (g.pc = "invalidate" /\ N \in 3..6 /\ Known(g) = 1..N /\ Cardinality(Rows(p)) = N)
            => \A i \in 1..N :
                  \E e \in Rows(p) :
                     /\ e.position = i
                     /\ e.track_id = g.geminiResponse[i].id
                     /\ (g.geminiResponse[i].weight.kind = "number"
                           /\ g.geminiResponse[i].weight.v \in 0..10)
                        => e.weight = g.geminiResponse[i].weight.v

(* C6: with one request at a time, a generation or a track deletion that     *)
(* answers 200 leaves no cache entry; only a top-tracks read that found none *)
(* stores one; and such a read, and so the read that follows a successful    *)
(* mutation, answers 200 with what the catalog gives at that moment.         *)
THM_C6 ==
    [][/\ \A p \in GenIds :
             (AnsweredAfterLoop(p) /\ response'.status = 200) => ~cache'.present
       /\ \A d \in DelIds :
             (del[d].pc = "invalidate" /\ del'[d].pc = "idle" /\ response'.status = 200)
             => ~cache'.present
       /\ (~cache.present /\ cache'.present) => \E r \in TopIds : top[r].pc = "setex"
       /\ \A r \in TopIds :
             (top[r].pc = "setex" /\ top'[r].pc = "idle" /\ response'.status = 200)
             => /\ ~cache.present
                /\ response'.body \in TopTracksResults(tracks', top[r].limit)
       /\ (/\ response.req \in {"generate", "delete-track"}
           /\ response.status = 200
           /\ response'.req = "top-tracks"
           /\ response'.status = 200)
          => response'.body \in TopTracksResults(tracks', response'.input.limit)]_vars

\* the read after the second generation answers with the count of both
WIT_C6 ==
    /\ response.req = "top-tracks"
    /\ response.status = 200
    /\ response.body = <<[id |-> 1, selection_count |-> 2]>>
    /\ cache.present
    /\ \A p \in GenIds : gen[p].pc = "done"

(* C7, as claimed: once a mutation's invalidation has happened, the cache    *)
(* never comes to hold a snapshot of the catalog as it was before the        *)
(* mutation, so that no read arriving afterwards is answered with one.       *)
CEX_C7 == [][(ServesStale' /\ ~ServesStale) => InvalidationFails]_vars

(* C7, amended: it comes to hold one only by the cache write of a read that  *)
(* had queried the catalog before the mutation.                              *)
THM_C7 == [][(ServesStale' /\ ~ServesStale) => (InvalidationFails \/ StaleReadStores)]_vars

\* after a generation's invalidation a read has stored what the catalog gives
WIT_C7 ==
    /\ ~MutationPending
    /\ gen[1].pc = "done"
    /\ cache.present
    /\ cache.snap # <<>>
    /\ Fresh(cache.snap)

(* C8: a generation request whose mood is missing, empty or only whitespace  *)
(* is answered 400 on arrival: it never reaches the backend call and leaves  *)
(* the tracks, the playlists, the entries and the cache entry as they were.  *)
THM_C8 ==
    [][\A p \in GenIds :
          (gen[p].pc = "idle" /\ gen'[p].pc # "idle" /\ IsBlank(ArrivedMood(p)))
          => /\ gen'[p].pc = "done"
             /\ response'.req = "generate"
             /\ response'.status = 400
             /\ UNCHANGED <<tracks, playlists, playlist_tracks, cache>>]_vars

\* a whitespace-only mood was refused although the library holds a track
WIT_C8 ==
    /\ response.req = "generate"
    /\ response.status = 400
    /\ response.input.kind = "string"
    /\ response.input.text = <<" ", " ">>
    /\ DOMAIN tracks # {}

(* C9, as claimed: a generation whose catalog read finds no track is         *)
(* answered 400.                                                             *)
CEX_C9 ==
    [][\A p \in GenIds :
          (gen[p].pc = "fetch" /\ gen'[p].pc # "fetch" /\ DOMAIN tracks = {})
          => /\ gen'[p].pc = "done"
             /\ response'.status = 400
             /\ UNCHANGED <<tracks, playlists, playlist_tracks>>]_vars

(* C9, amended: it is answered 400, or 500 when the read of the catalog      *)
(* itself fails; either way the backend is not called and no playlist, entry *)
(* or counter is written.                                                    *)
THM_C9 ==
    [][\A p \in GenIds :
          (gen[p].pc = "fetch" /\ gen'[p].pc # "fetch" /\ DOMAIN tracks = {})
          => /\ gen'[p].pc = "done"
             /\ \/ response'.status = 400
                \/ response'.status = 500 /\ response'.details = "tracksError"
             /\ UNCHANGED <<tracks, playlists, playlist_tracks>>]_vars

\* a generation was refused for want of tracks
WIT_C9 ==
    /\ response.req = "generate"
    /\ response.status = 400
    /\ response.details = "No tracks available"
    /\ DOMAIN tracks = {}
    /\ DOMAIN playlists = {}

(* C10: a generation that answers 200 has stored between 3 and 6 entries.    *)
CEX_C10 ==
    [][\A p \in GenIds :
          (AnsweredAfterLoop(p) /\ response'.status = 200)
          => Cardinality(Rows(p)') \in 3..6]_vars

(* C11: a generation whose backend text does not parse, or parses to a value  *)
(* without a tracks array, or to an empty tracks array, is answered 500 at    *)
(* the validation and leaves the playlists, the entries and the counters as   *)
(* they were.                                                                 *)
CEX_C11 ==
    [][\A p \in GenIds :
          (/\ gen[p].pc = "call"
           /\ \/ /\ gen'[p].pc = "done"
                 /\ response'.details \in {"SyntaxError", "Invalid response format from Gemini"}
              \/ /\ gen'[p].pc = "insert"
                 /\ gen'[p].geminiResponse = <<>>)
          => /\ gen'[p].pc = "done"
             /\ response'.status = 500
             /\ UNCHANGED <<tracks, playlists, playlist_tracks>>]_vars

(* C16: a generation whose backend call fails is answered 500 with the error  *)
(* as detail, and no step of the request up to and including that answer      *)
(* changes the playlists, the entries, the counters or the cache entry.       *)
THM_C16 ==
    [][\A p \in GenIds :
          /\ (gen[p].pc \in {"idle", "fetch", "call"} /\ gen'[p] # gen[p])
             => UNCHANGED <<tracks, playlists, playlist_tracks, cache>>
          /\ (gen[p].pc = "call" /\ gen'[p].pc = "done" /\ response'.details = "generateContent")
             => /\ response'.req = "generate"
                /\ response'.id = p
                /\ response'.status = 500]_vars

\* the backend call failed while the cache held an entry
WIT_C16 ==
    /\ response.req = "generate"
    /\ response.status = 500
    /\ response.details = "generateContent"
    /\ DOMAIN tracks # {}
    /\ playlists = <<>>
    /\ playlist_tracks = {}
    /\ cache.present

(* C12: when the loop of a generation is over and every store call succeeded, *)
(* each record that names a catalog track and carries no weight, or a weight  *)
(* that is not a number, has its entry, stored with the weight 0.5.           *)
CEX_C12 ==
    \A p \in GenIds :
        gen[p].pc = "invalidate"
        => \A i \in Known(gen[p]) :
              gen[p].geminiResponse[i].weight.kind # "number"
              => \E e \in Rows(p) : /\ e.position = i
                                    /\ e.track_id = gen[p].geminiResponse[i].id
                                    /\ e.weight = DefaultWeight

(* C13: every stored entry has a weight between 0 and 1.                      *)
CEX_C13 == \A e \in playlist_tracks : e.weight \in 0..10

(* C14: no step lowers the selection_count of a track that exists before and  *)
(* after it.                                                                  *)
CEX_C14 ==
    [][\A t \in DOMAIN tracks \cap DOMAIN tracks' : tracks'[t] >= tracks[t]]_vars

(* C15: when the loop of a generation that ran alone is over, every store     *)
(* call having succeeded, each track's selection_count exceeds the count the  *)
(* request found by the number of the new playlist's entries that name it.    *)
CEX_C15 ==
    (gen[1].pc = "invalidate" /\ gen[2].pc = "idle")
    => \A t \in DOMAIN tracks :
          tracks[t] = gen[1].tracks[t] + Cardinality({e \in Rows(1) : e.track_id = t})

(* C17: a top-tracks request is never answered with an error because of the   *)
(* cache: neither the step that reads the cache entry nor the step that       *)
(* writes it answers anything but 200.                                        *)
CEX_C17 ==
    [][/\ (/\ UNCHANGED <<gen, top, del, up, tracks, playlists, playlist_tracks, cache>>
           /\ response'.req = "top-tracks")
          => response'.status = 200
       /\ \A r \in TopIds :
             (top[r].pc = "setex" /\ top'[r].pc = "idle") => response'.status = 200]_vars

(* C18: a top-tracks answer with status 200 holds at most as many tracks as   *)
(* the limit of its request (10 without one), each with a selection_count     *)
(* above 0, in descending order of selection_count.                           *)
CEX_C18 ==
    (response.req = "top-tracks" /\ response.status = 200)
    => /\ Len(response.body) <= response.input.limit
       /\ \A i \in 1..Len(response.body) : response.body[i].selection_count > 0
       /\ \A i, j \in 1..Len(response.body) :
             i < j => response.body[i].selection_count >= response.body[j].selection_count

\* a step in which a request that is handled in one step, or the first read of
\* a track deletion, answers: no handler moves and the cache entry stays
AnswersAtOnce == UNCHANGED <<gen, top, del, up, cache>>

\* the identifier names no row of the table that the request is about
NoRecord(req, id) ==
    CASE req \in {"get-playlist", "delete-playlist"} -> id \notin DOMAIN playlists
      [] req \in {"delete-track", "stream"} -> id \notin DOMAIN tracks
      [] OTHER -> FALSE

(* C19: the deletion of a track leaves every playlist entry in the store, and *)
(* a successful read of a playlist returns all the entries the store holds of *)
(* it, each with its track or with none.                                      *)
CEX_C19 ==
    [][/\ \A d \in DelIds :
             (del[d].pc = "dbdel" /\ del'[d].pc = "invalidate")
             => playlist_tracks' = playlist_tracks
       /\ (AnswersAtOnce /\ response'.req = "get-playlist" /\ response'.status = 200)
          => response'.body.playlist_tracks
               = Embedded(playlist_tracks, tracks, response'.input.id)]_vars

(* C20: a read or a deletion of a playlist, a deletion of a track and a       *)
(* stream of a track whose identifier names no row answer 404 and leave the   *)
(* tracks, the objects, the playlists and the entries as they were.           *)
CEX_C20 ==
    [][(/\ AnswersAtOnce
        /\ response'.req \in {"get-playlist", "delete-playlist", "delete-track", "stream"}
        /\ NoRecord(response'.req, response'.input.id))
       => /\ response'.status = 404
          /\ UNCHANGED <<tracks, objects, playlists, playlist_tracks>>]_vars

(* C21: every entry in the store belongs to a playlist in the store, also     *)
(* when a playlist is deleted while its generation still inserts entries.     *)
THM_C21 == \A e \in playlist_tracks : e.playlist_id \in DOMAIN playlists

\* the playlist was deleted after its first entry was stored and before the
\* loop came to the second record
WIT_C21 ==
    /\ gen[1].pc = "entry"
    /\ Len(gen[1].playlistTracks) = 1
    /\ 1 \notin DOMAIN playlists
    /\ playlist_tracks = {}
    /\ 1 \in DOMAIN tracks

(* C22: from one state to the next a playlist that stays in the store keeps   *)
(* its mood and its set of entries.                                           *)
CEX_C22 ==
    [][\A p \in DOMAIN playlists \cap DOMAIN playlists' :
          /\ playlists'[p] = playlists[p]
          /\ Rows(p)' = Rows(p)]_vars

(* C23: every entry references a track of the store, at the step that stores  *)
(* it and afterwards; a generation creates no track row; and a generation     *)
(* that comes to a record whose track was deleted after it read the catalog   *)
(* stores nothing for it, writes no counter and goes on with its loop.        *)
THM_C23 ==
    [][/\ \A e \in playlist_tracks' : e.track_id \in DOMAIN tracks'
       /\ \A e \in playlist_tracks' \ playlist_tracks : e.track_id \in DOMAIN tracks
       /\ \A p \in GenIds : gen'[p] # gen[p] => DOMAIN tracks' = DOMAIN tracks
       /\ \A p \in GenIds :
             (/\ gen[p].pc = "entry"
              /\ gen'[p] # gen[p]
              /\ gen[p].geminiResponse[gen[p].i].id \notin DOMAIN tracks)
             => /\ gen'[p].pc \in {"entry", "invalidate"}
                /\ gen'[p].i > gen[p].i
                /\ UNCHANGED <<tracks, playlist_tracks>>]_vars

\* the loop is over: both records named a track of the snapshot, the track was
\* deleted in between, the playlist has no entry and no track row exists
WIT_C23 ==
    /\ gen[1].pc = "invalidate"
    /\ Cardinality(Known(gen[1])) = 2
    /\ gen[1].playlistTracks = <<>>
    /\ 1 \in DOMAIN playlists
    /\ Rows(1) = {}
    /\ tracks = <<>>

(* C24: every entry that a step adds to the store is added by a generation    *)
(* at its insert, carries the identifier of that request's playlist (the      *)
(* request's number) and the track and weight of the record of that request's *)
(* own response at the entry's position.                                      *)
THM_C24 ==
    [][\A e \in playlist_tracks' \ playlist_tracks :
          \E p \in GenIds :
             /\ gen[p].pc = "entry"
             /\ gen'[p].pc = "count"
             /\ e.playlist_id = p
             /\ p \in DOMAIN playlists
             /\ e.position = gen[p].i
             /\ e.track_id = gen[p].geminiResponse[e.position].id
             /\ e.weight = WeightOrDefault(gen[p].geminiResponse[e.position].weight).v]_vars

\* both requests have stored their entry and neither is over: the first
\* playlist holds track 1 only, the second track 2 only
WIT_C24 ==
    /\ gen[1].pc = "count"
    /\ gen[2].pc = "count"
    /\ {e.track_id : e \in Rows(1)} = {1}
    /\ {e.track_id : e \in Rows(2)} = {2}

(* C25: a track deletion goes on to delete the row whether or not the removal *)
(* of the storage object succeeds; the row is gone once the row delete has    *)
(* succeeded and when the request answers 200; and a listing of the tracks    *)
(* answers with the rows of the store, so that the listing after a successful *)
(* deletion does not hold the deleted track.                                  *)
THM_C25 ==
    [][/\ \A d \in DelIds :
             (del[d].pc = "remove" /\ del'[d] # del[d])
             => del'[d].pc = "dbdel" /\ del'[d].id = del[d].id
       /\ \A d \in DelIds :
             (del[d].pc = "dbdel" /\ del'[d].pc = "invalidate")
             => del[d].id \notin DOMAIN tracks'
       /\ \A d \in DelIds :
             (del[d].pc = "invalidate" /\ del'[d].pc = "idle" /\ response'.status = 200)
             => response'.req = "delete-track" /\ response'.input.id \notin DOMAIN tracks'
       /\ (AnswersAtOnce /\ response'.req = "get-tracks" /\ response'.status = 200)
          => /\ response'.body = tracks
             /\ (response.req = "delete-track" /\ response.status = 200)
                => response.input.id \notin DOMAIN response'.body]_vars

\* a deletion answered 200: the row is gone and the storage object is still
\* there, its removal having failed
WIT_C25 ==
    /\ response.req = "delete-track"
    /\ response.status = 200
    /\ response.input.id \notin DOMAIN tracks
    /\ response.input.id \in objects

THM_C28 ==
    [][/\ \A t \in DOMAIN tracks \cap DOMAIN tracks' :
             tracks'[t] # tracks[t]
             => \E p \in GenIds : gen[p].pc = "count" /\ gen'[p] # gen[p]
       /\ \A t \in DOMAIN tracks' \ DOMAIN tracks :
             /\ tracks'[t] = 0
             /\ \E u \in UpIds : up[u].pc = "insert" /\ up'[u] # up[u]]_vars

\* the playlist of the generation was deleted and the track it selected still
\* has the count the generation gave it
WIT_C28 ==
    /\ response.req = "delete-playlist"
    /\ response.status = 200
    /\ response.input.id = 1
    /\ gen[1].pc = "done"
    /\ 1 \notin DOMAIN playlists
    /\ \E t \in DOMAIN tracks : tracks[t] = 1

(* C29: an upload that is answered before its first file is stored (it holds  *)
(* no file, or a file that multer refuses for its content type or its size)   *)
(* is answered with a 4xx status and creates no object and no track row.      *)
CEX_C29 ==
    [][(AnswersAtOnce /\ response'.req = "upload")
       => /\ response'.status \in 400..499
          /\ UNCHANGED <<objects, tracks>>]_vars

(* C30: within a stored playlist no two entries have the same position, and   *)
(* every position is at least 1, whatever identifiers the backend selected.   *)
THM_C30 ==
    /\ \A e1, e2 \in playlist_tracks :
          (e1.playlist_id = e2.playlist_id /\ e1.position = e2.position) => e1 = e2
    /\ \A e \in playlist_tracks : e.position >= 1

\* the backend named track 1, an unknown identifier and track 1 again: the
\* playlist holds track 1 at the positions 1 and 3
WIT_C30 ==
    /\ gen[1].pc = "done"
    /\ Cardinality(Rows(1)) = 2
    /\ {e.position : e \in Rows(1)} = {1, 3}
    /\ {e.track_id : e \in Rows(1)} = {1}

(* C26: a read of the top tracks is answered from the cache only with the     *)
(* snapshot of an entry that is present, that is one stored less than 300     *)
(* seconds ago and not invalidated since; an entry is stored with 300 seconds *)
(* to live, a successful invalidation leaves no entry, and a read that finds  *)
(* no entry queries the catalog and answers with what the query gave.         *)
THM_C26 ==
    [][/\ (AnswersAtOnce /\ response'.req = "top-tracks" /\ response'.status = 200)
          => /\ cache.present
             /\ cache.ttl \in 1..CacheTTL
             /\ response'.body = cache.snap
       /\ cache'.present => cache'.ttl \in 1..CacheTTL
       /\ \A p \in GenIds :
             (AnsweredAfterLoop(p) /\ response'.status = 200) => ~cache'.present
       /\ \A d \in DelIds :
             (del[d].pc = "invalidate" /\ del'[d].pc = "idle" /\ response'.status = 200)
             => ~cache'.present
       /\ \A r \in TopIds :
             /\ (top[r].pc = "idle" /\ top'[r].pc = "query") => ~cache.present
             /\ (top[r].pc = "query" /\ top'[r].pc = "setex")
                => top'[r].topTracks \in TopTracksResults(tracks, top[r].limit)
             /\ (top[r].pc = "setex" /\ top'[r].pc = "idle" /\ response'.status = 200)
                => /\ response'.body = top[r].topTracks
                   /\ cache' = [present |-> TRUE, snap |-> top[r].topTracks, ttl |-> CacheTTL]]_vars

\* a read with limit 1 was answered with the two rows of the snapshot that an
\* earlier read stored 150 seconds ago
WIT_C26 ==
    /\ response.req = "top-tracks"
    /\ response.status = 200
    /\ response.input.limit = 1
    /\ Len(response.body) = 2
    /\ cache.present
    /\ cache.ttl = CacheTTL - 150
    /\ cache.snap = response.body

\* after the file at index k the upload goes on with the file at k + 1, or, k
\* being the last, answers 200 with the rows collected
GoesOn(u, collected) ==
    IF up[u].k < up[u].n
    THEN /\ up'[u].pc = "store"
         /\ up'[u].k = up[u].k + 1
         /\ up'[u].n = up[u].n
         /\ up'[u].uploadedTracks = collected
    ELSE /\ up'[u].pc = "idle"
         /\ response'.req = "upload"
         /\ response'.status = 200
         /\ response'.body = collected

(* C31: in an upload of several files, a file that the storage refuses adds   *)
(* nothing to the list and the upload goes on with the next file; a file      *)
(* whose row insert fails likewise; a file whose row is inserted adds that    *)
(* row, with selection_count 0, at the end of the list; the answer after the  *)
(* last file holds the list. So the list holds the files that passed both     *)
(* steps, in the order of the request.                                        *)
THM_C31 ==
    [][\A u \in UpIds :
          /\ (up[u].pc = "store" /\ up'[u] # up[u] /\ up'[u].pc # "insert")
             => GoesOn(u, up[u].uploadedTracks)
          /\ (up[u].pc = "store" /\ up'[u].pc = "insert")
             => /\ up'[u].k = up[u].k
                /\ up'[u].uploadedTracks = up[u].uploadedTracks
                /\ up'[u].id \in objects' \ objects
          /\ (up[u].pc = "insert" /\ up'[u] # up[u])
             => IF up[u].id \in DOMAIN tracks' \ DOMAIN tracks
                THEN /\ tracks'[up[u].id] = 0
                     /\ GoesOn(u, Append(up[u].uploadedTracks,
                                         [id |-> up[u].id, original_name |-> up[u].k,
                                          selection_count |-> 0]))
                ELSE GoesOn(u, up[u].uploadedTracks)
          /\ LET rows == up'[u].uploadedTracks
             IN  /\ \A i \in 1..Len(rows) : rows[i].original_name \in 1..(up'[u].k - 1)
                 /\ \A i, j \in 1..Len(rows) :
                       i < j => rows[i].original_name < rows[j].original_name]_vars

\* an upload of two files was answered: the row insert of the first failed
\* after its object was stored, and the list holds the second file alone
WIT_C31 ==
    /\ response.req = "upload"
    /\ response.status = 200
    /\ response.input.files = 2
    /\ Len(response.body) = 1
    /\ response.body[1].original_name = 2
    /\ response.body[1].selection_count = 0
    /\ Cardinality(objects) = 2
    /\ DOMAIN tracks = {response.body[1].id}

\* the entries that name track t. Where no playlist is deleted these are the
\* entries ever created for t: an entry leaves the store only with its playlist
\* or with its track
EntriesOf(t) == {e \in playlist_tracks : e.track_id = t}

(* C32: with concurrent generations that each may name a track more than once *)
(* and no playlist deleted, the selection_count of a track is at most the     *)
(* number of entries created for it.                                          *)
THM_C32 == \A t \in DOMAIN tracks : tracks[t] <= Cardinality(EntriesOf(t))

\* two interleaved generations each named track 1 twice: four entries were
\* created for it and its count, written from the two snapshots, is 1
WIT_C32 ==
    /\ gen[1].pc = "done"
    /\ gen[2].pc = "done"
    /\ 1 \in DOMAIN tracks
    /\ Cardinality(EntriesOf(1)) = 4
    /\ tracks[1] = 1

\* the track, position and weight of each record of a generation's answer
AnsweredEntries(body) ==
    {[track_id |-> body[i].id, position |-> body[i].position, weight |-> body[i].weight] :
        i \in 1..Len(body)}

\* the track, position and weight of each entry of a playlist that was read
ReadEntries(playlist) ==
    {[track_id |-> e.track_id, position |-> e.position, weight |-> Num(e.weight)] :
        e \in playlist.playlist_tracks}

(* C33: when a generation was answered 200 and the next answer is that of a   *)
(* successful read of its playlist, the read gives the tracks, positions and  *)
(* weights of the generation's answer.                                        *)
CEX_C33 ==
    [][(/\ response.req = "generate"
        /\ response.status = 200
        /\ response'.req = "get-playlist"
        /\ response'.status = 200
        /\ response'.input.id = response.id)
       => ReadEntries(response'.body) = AnsweredEntries(response.body)]_vars

(* C34: when a generation is answered with a 5xx status, its playlist and its *)
(* entries are not in the store; when a track deletion is answered with one,  *)
(* the track is still in the store.                                           *)
CEX_C34 ==
    [][/\ \A p \in GenIds :
             (gen[p].pc # "done" /\ gen'[p].pc = "done" /\ response'.status \in 500..599)
             => /\ p \notin DOMAIN playlists'
                /\ Rows(p)' = {}
       /\ \A d \in DelIds :
             (del[d].pc # "idle" /\ del'[d].pc = "idle" /\ response'.status \in 500..599)
             => del[d].id \in DOMAIN tracks']_vars

\* the current playlist has at least one track
HasTracks(c) == c.currentPlaylist.kind = "playlist" /\ c.currentPlaylist.tracks >= 1

\* the index after a next-track or track-ended event at index i of n tracks
Advanced(i, n, looping) == IF i = n - 1 THEN (IF looping THEN 0 ELSE i) ELSE i + 1

(* C35: while the current playlist has a track, the index is one of its       *)
(* tracks', and an event of the skip button, of the media session's next      *)
(* track action or of the end of a track sets it to 0 at the last track when  *)
(* looping is on, leaves it there when looping is off, and otherwise raises   *)
(* it by 1.                                                                   *)
CEX_C35 ==
    [][/\ HasTracks(client') => TrackExists(client')
       /\ (HasTracks(client) /\ client'.event \in {"next", "nexttrack", "ended"})
          => client'.currentTrackIndex =
                Advanced(client.currentTrackIndex, client.currentPlaylist.tracks,
                         client.isLooping)]_vars

(* C36: when the generate request is answered 400 or 500, the component keeps *)
(* its current playlist, its index and its tab, and shows an error            *)
(* notification.                                                              *)
CEX_C36 ==
    [][(client.loading /\ client'.event = "answered" /\ client'.status \in {400, 500})
       => /\ client'.currentPlaylist = client.currentPlaylist
          /\ client'.currentTrackIndex = client.currentTrackIndex
          /\ client'.activeTab = client.activeTab
          /\ client'.notification.type = "error"]_vars

====
